---- MODULE Spec2Model ----
(***************************************************************************)
(* sktime.classification.dummy.DummyClassifier: a classifier that ignores  *)
(* the feature values of X and predicts from the training labels alone.    *)
(* The class is an adapter: it keeps its three parameters and an instance  *)
(* of sklearn.dummy.DummyClassifier ("the engine") and hands every call to *)
(* the engine with np.zeros(X.shape) in the place of X.                    *)
(*                                                                         *)
(* An optional value (None or a value v) is the sequence <<>> or <<v>>.     *)
(* A probability row is a sequence of numerators over a common denominator *)
(* (field den), so that 2/3 is the numerator 2 under den = 3.              *)
(***************************************************************************)
EXTENDS Integers, Sequences, FiniteSets, TLC

\* Longest training set / query set (number of instances).
MaxLen == 3

Labels == {0, 1}
FeatureVals == {0, 1}
\* Number of columns of X (X.shape[1]).
Dims == {2}
\* Integer seeds that may be given as random_state.
Seeds == {1}
\* States of a pseudo-random generator.
RngStates == 0 .. 3

NoValue == <<>>
Some(v) == <<v>>

VALID_STRATEGIES == {"most_frequent", "prior", "stratified", "uniform", "constant"}
\* __init__ accepts any string; "bogus" stands for the unrecognised ones.
StrategyInputs == VALID_STRATEGIES \cup {"bogus"}

VARIABLES
  strategy,       \* self.strategy
  random_state,   \* self.random_state: NoValue or Some(seed)
  constant,       \* self.constant: NoValue or Some(label)
  engine,         \* self.sklearn_dummy_classifier
  fit_y,          \* history: NoValue, or Some(y) for the y of the last fit that succeeded
  failed_fit,     \* history: a call of fit has failed and none has succeeded yet
  last            \* the last public call: its arguments' shape, its error, its result

vars == <<strategy, random_state, constant, engine, fit_y, failed_fit, last>>

-----------------------------------------------------------------------------
(* Arrays *)

\* X: n instances of d columns; the cells hold the feature values.
Filled(n, d, v) == [n |-> n, d |-> d, cells |-> [i \in 1 .. n |-> [j \in 1 .. d |-> v]]]

XInputs == {Filled(n, d, v) : n \in 1 .. MaxLen, d \in Dims, v \in FeatureVals}

YInputs == UNION {[1 .. n -> Labels] : n \in 1 .. MaxLen}

\* X.shape
shape(X) == <<X.n, X.d>>

\* np.zeros(s)
np_zeros(s) == Filled(s[1], s[2], 0)

\* The argument the adapter hands to the engine for X: np.zeros(X.shape).
PlaceholderPassX(X) == X

Placeholder(X) == np_zeros(shape(X))

\* The other arrays of the shape of X.
SameShape(s) == {X \in XInputs : shape(X) = s}

-----------------------------------------------------------------------------
(* numpy.random, as far as the engine uses it: a generator is a state, a    *)
(* draw advances it, and the stream is a function of the starting state.   *)

RECURSIVE rng_state(_, _)
\* The state of a generator started at g after i draws.
rng_state(g, i) == IF i = 0 THEN g ELSE (5 * rng_state(g, i - 1) + 3) % 4

\* RandomState(seed)
RandomState(seed) == seed % 4

\* check_random_state(random_state): None is numpy's global generator, whose
\* state g the caller does not control; an int seeds a fresh generator.
check_random_state_global(rs, g) == g

check_random_state(rs, g) == IF rs = NoValue THEN g ELSE RandomState(rs[1])

-----------------------------------------------------------------------------
(* sklearn.dummy.DummyClassifier *)

Count(y, c) == Cardinality({i \in DOMAIN y : y[i] = c})

Min(S) == CHOOSE a \in S : \A b \in S : a <= b

RECURSIVE SortedSeq(_)
\* np.unique: the distinct values, ascending.
SortedSeq(S) == IF S = {} THEN <<>> ELSE <<Min(S)>> \o SortedSeq(S \ {Min(S)})

Range(s) == {s[i] : i \in DOMAIN s}

\* class_distribution(y): classes_ and the count of each (class_prior_ is
\* class_count / n_samples).
class_distribution_unweighted(y) ==
  LET classes == SortedSeq(Range(y))
  IN [classes_ |-> classes,
      class_count |-> [k \in DOMAIN classes |-> 1],
      n_samples |-> Len(classes)]

class_distribution(y) ==
  LET classes == SortedSeq(Range(y))
  IN [classes_ |-> classes,
      class_count |-> [k \in DOMAIN classes |-> Count(y, classes[k])],
      n_samples |-> Len(y)]

\* SklearnDummyClassifier(strategy=..., random_state=..., constant=...)
SklearnDummyClassifier(s, rs, c) ==
  [strategy |-> s, random_state |-> rs, constant |-> c, fitted |-> FALSE,
   classes_ |-> <<>>, class_count |-> <<>>, n_samples |-> 0]

\* The error of engine.fit(X, y), or "none".
sk_fit_error_no_length_check(eng, X, y) ==
  IF eng.strategy \notin VALID_STRATEGIES THEN "InvalidStrategy"
  ELSE IF eng.strategy = "constant" /\ eng.constant = NoValue THEN "MissingConstant"
  ELSE IF eng.strategy = "constant" /\ eng.constant[1] \notin Range(y)
    THEN "ConstantNotInLabels"
  ELSE "none"

\* The lengths of X and y must agree, the strategy must be a recognised one,
\* "constant" needs a constant, and the constant must be one of the classes
\* observed in y.
sk_fit_error(eng, X, y) ==
  IF X.n # Len(y) THEN "ShapeMismatch"
  ELSE IF eng.strategy \notin VALID_STRATEGIES THEN "InvalidStrategy"
  ELSE IF eng.strategy = "constant" /\ eng.constant = NoValue THEN "MissingConstant"
  ELSE IF eng.strategy = "constant" /\ eng.constant[1] \notin Range(y)
    THEN "ConstantNotInLabels"
  ELSE "none"

\* The engine after a fit(X, y) that raised nothing.
sk_fit_accumulating(eng, X, y) ==
  LET classes == SortedSeq(Range(y) \cup Range(eng.classes_))
      before(c) == IF c \in Range(eng.classes_)
                     THEN eng.class_count[CHOOSE k \in DOMAIN eng.classes_ : eng.classes_[k] = c]
                     ELSE 0
  IN [eng EXCEPT !.fitted = TRUE, !.classes_ = classes,
                 !.class_count = [k \in DOMAIN classes |-> Count(y, classes[k]) + before(classes[k])],
                 !.n_samples = eng.n_samples + Len(y)]

sk_fit(eng, X, y) ==
  LET cd == class_distribution(y)
  IN [eng EXCEPT !.fitted = TRUE, !.classes_ = cd.classes_,
                 !.class_count = cd.class_count, !.n_samples = cd.n_samples]

OneHot(k, K) == [j \in 1 .. K |-> IF j = k THEN 1 ELSE 0]

\* class_prior_.argmax(): the first index of a largest entry.
argmin(counts) ==
  CHOOSE k \in DOMAIN counts :
    /\ \A j \in DOMAIN counts : counts[k] <= counts[j]
    /\ \A j \in DOMAIN counts : counts[j] = counts[k] => k <= j

argmax(counts) ==
  CHOOSE k \in DOMAIN counts :
    /\ \A j \in DOMAIN counts : counts[j] <= counts[k]
    /\ \A j \in DOMAIN counts : counts[j] = counts[k] => k <= j

RECURSIVE CumCount(_, _)
CumCount(counts, k) == IF k = 0 THEN 0 ELSE counts[k] + CumCount(counts, k - 1)

\* One draw of rs.multinomial(1, class_prior_): the index of the class drawn
\* by the generator value r, class k holding class_count[k] of the n_samples
\* equal parts.
multinomial(eng, r) ==
  LET p == r % eng.n_samples
  IN CHOOSE k \in DOMAIN eng.class_count :
       /\ CumCount(eng.class_count, k) > p
       /\ CumCount(eng.class_count, k - 1) <= p

\* rs.randint(n_classes): one draw.
randint(K, r) == (r % K) + 1

IndexOf(classes, c) == CHOOSE k \in DOMAIN classes : classes[k] = c

\* engine.predict_proba(X) of a fitted engine; g is the state of numpy's
\* global generator at the call. One row per row of X, one entry per class.
sk_predict_proba_onehot_uniform(eng, X, g) ==
  LET K == Len(eng.classes_)
      rs == check_random_state(eng.random_state, g)
  IN CASE eng.strategy = "most_frequent" ->
            [den |-> 1, rows |-> [i \in 1 .. X.n |-> OneHot(argmax(eng.class_count), K)]]
       [] eng.strategy = "prior" ->
            [den |-> eng.n_samples, rows |-> [i \in 1 .. X.n |-> eng.class_count]]
       [] eng.strategy = "stratified" ->
            [den |-> 1,
             rows |-> [i \in 1 .. X.n |-> OneHot(multinomial(eng, rng_state(rs, i)), K)]]
       [] eng.strategy = "uniform" ->
            [den |-> 1,
             rows |-> [i \in 1 .. X.n |-> OneHot(randint(K, rng_state(rs, i)), K)]]
       [] eng.strategy = "constant" ->
            [den |-> 1,
             rows |-> [i \in 1 .. X.n |-> OneHot(IndexOf(eng.classes_, eng.constant[1]), K)]]

sk_predict_proba(eng, X, g) ==
  LET K == Len(eng.classes_)
      rs == check_random_state(eng.random_state, g)
  IN CASE eng.strategy = "most_frequent" ->
            [den |-> 1, rows |-> [i \in 1 .. X.n |-> OneHot(argmax(eng.class_count), K)]]
       [] eng.strategy = "prior" ->
            [den |-> eng.n_samples, rows |-> [i \in 1 .. X.n |-> eng.class_count]]
       [] eng.strategy = "stratified" ->
            [den |-> 1,
             rows |-> [i \in 1 .. X.n |-> OneHot(multinomial(eng, rng_state(rs, i)), K)]]
       [] eng.strategy = "uniform" ->
            [den |-> K, rows |-> [i \in 1 .. X.n |-> [j \in 1 .. K |-> 1]]]
       [] eng.strategy = "constant" ->
            [den |-> 1,
             rows |-> [i \in 1 .. X.n |-> OneHot(IndexOf(eng.classes_, eng.constant[1]), K)]]

\* engine.predict(X) of a fitted engine: one label per row of X.
sk_predict(eng, X, g) ==
  LET K == Len(eng.classes_)
      rs == check_random_state(eng.random_state, g)
  IN CASE eng.strategy \in {"most_frequent", "prior"} ->
            [i \in 1 .. X.n |-> eng.classes_[argmax(eng.class_count)]]
       [] eng.strategy = "stratified" ->
            [i \in 1 .. X.n |-> eng.classes_[argmax(sk_predict_proba(eng, X, g).rows[i])]]
       [] eng.strategy = "uniform" ->
            [i \in 1 .. X.n |-> eng.classes_[randint(K, rng_state(rs, i))]]
       [] eng.strategy = "constant" ->
            [i \in 1 .. X.n |-> eng.constant[1]]

\* The error of engine.predict(X) / engine.predict_proba(X), or "none".
sk_predict_error_no_check(eng) == IF eng.fitted THEN "none" ELSE "AttributeError"

\* An engine that was never fitted raises NotFitted.
sk_predict_error(eng) == IF eng.fitted THEN "none" ELSE "NotFitted"

-----------------------------------------------------------------------------
(* DummyClassifier *)

\* __init__: the engine is built from the three parameters as given.
init_engine_default_strategy(s, rs, c) == SklearnDummyClassifier("prior", rs, c)

init_engine(s, rs, c) == SklearnDummyClassifier(s, rs, c)

\* _fit: self.sklearn_dummy_classifier.fit(np.zeros(X.shape), y)
fit_error(eng, X, y) == sk_fit_error(eng, Placeholder(X), y)

_fit(eng, X, y) == sk_fit(eng, Placeholder(X), y)

\* _predict: self.sklearn_dummy_classifier.predict(np.zeros(X.shape))
predict_transposed(eng, X, g) == sk_predict(eng, np_zeros(<<X.d, X.n>>), g)

_predict(eng, X, g) == sk_predict(eng, Placeholder(X), g)

\* _predict_proba: self.sklearn_dummy_classifier.predict_proba(np.zeros(X.shape))
_predict_proba(eng, X, g) == sk_predict_proba(eng, Placeholder(X), g)

NoProba == [den |-> 0, rows |-> <<>>]

Call(op, X, ylen, err, labels, proba, seen) ==
  [op |-> op, shape |-> shape(X), ylen |-> ylen, err |-> err,
   labels |-> labels, proba |-> proba, engine_X |-> seen]

\* The parameters given to __init__: any strategy string; a seed where the
\* strategy draws at random and a constant where the strategy is "constant"
\* (the parameters have no effect elsewhere), each of them optional.
Configs ==
  {<<s, rs, c>> \in StrategyInputs
                     \X ({NoValue} \cup {Some(seed) : seed \in Seeds})
                     \X ({NoValue} \cup {Some(l) : l \in Labels}) :
     /\ rs # NoValue => s \in {"stratified", "uniform"}
     /\ c # NoValue => s = "constant"}

\* __init__ keeps the parameters as given and checks none of them.
Init ==
  \E cfg \in Configs :
    /\ strategy = cfg[1]
    /\ random_state = cfg[2]
    /\ constant = cfg[3]
    /\ engine = init_engine(cfg[1], cfg[2], cfg[3])
    /\ fit_y = NoValue
    /\ failed_fit = FALSE
    /\ last = [op |-> "init", shape |-> <<0, 0>>, ylen |-> 0, err |-> "none",
               labels |-> <<>>, proba |-> NoProba, engine_X |-> NoValue]

\* fit(X, y): the engine is fitted on the placeholder and y; a fit that raises
\* leaves the parameters and the engine as they were.
fit(X, y) ==
  LET err == fit_error(engine, X, y)
  IN IF err = "none"
       THEN /\ engine' = _fit(engine, X, y)
            /\ fit_y' = Some(y)
            /\ last' = Call("fit", X, Len(y), "none", <<>>, NoProba, Some(Placeholder(X)))
            /\ failed_fit' = FALSE
            /\ UNCHANGED <<strategy, random_state, constant>>
       ELSE /\ failed_fit' = (fit_y = NoValue)
            /\ last' = Call("fit", X, Len(y), err, <<>>, NoProba, NoValue)
            /\ UNCHANGED <<strategy, random_state, constant, engine, fit_y>>

\* predict(X); g is the state of numpy's global generator at the call.
predict(X, g) ==
  LET err == sk_predict_error(engine)
  IN /\ last' = IF err = "none"
                  THEN Call("predict", X, 0, "none", _predict(engine, X, g), NoProba,
                            Some(Placeholder(X)))
                  ELSE Call("predict", X, 0, err, <<>>, NoProba, NoValue)
     /\ UNCHANGED <<strategy, random_state, constant, engine, fit_y, failed_fit>>

\* predict_proba(X)
predict_proba(X, g) ==
  LET err == sk_predict_error(engine)
  IN /\ last' = IF err = "none"
                  THEN Call("predict_proba", X, 0, "none", <<>>, _predict_proba(engine, X, g),
                            Some(Placeholder(X)))
                  ELSE Call("predict_proba", X, 0, err, <<>>, NoProba, NoValue)
     /\ UNCHANGED <<strategy, random_state, constant, engine, fit_y, failed_fit>>

Next ==
  \/ \E X \in XInputs, y \in YInputs : fit(X, y)
  \/ \E X \in XInputs, g \in RngStates : predict(X, g)
  \/ \E X \in XInputs, g \in RngStates : predict_proba(X, g)

Spec == Init /\ [][Next]_vars

-----------------------------------------------------------------------------
(* Properties *)

Predictions == {"predict", "predict_proba"}
Stochastic == {"stratified", "uniform"}

Ok(op) == last.op = op /\ last.err = "none"

RECURSIVE Sum(_)
Sum(row) == IF row = <<>> THEN 0 ELSE Head(row) + Sum(Tail(row))

\* A row that holds probability 1 at one class and 0 at the others.
IsOneHot(row, den) ==
  \E k \in DOMAIN row : row[k] = den /\ \A j \in DOMAIN row : j # k => row[j] = 0

\* C1: predict and predict_proba fail with NotFitted, and return nothing, as
\* long as no fit has succeeded, also after a fit that failed.
C1_NotFittedUntilFitSucceeds ==
  (last.op \in Predictions /\ fit_y = NoValue)
    => /\ last.err = "NotFitted"
       /\ last.labels = <<>>
       /\ last.proba = NoProba

C1_Witness ==
  /\ last.op = "predict"
  /\ failed_fit
  /\ last.err = "NotFitted"

\* The errors of C2 whose condition holds of the last call (a fit).
C2_Applicable ==
  {e \in {"ShapeMismatch", "InvalidStrategy", "MissingConstant"} :
     \/ e = "ShapeMismatch" /\ last.shape[1] # last.ylen
     \/ e = "InvalidStrategy" /\ strategy \notin VALID_STRATEGIES
     \/ e = "MissingConstant" /\ strategy = "constant" /\ constant = NoValue}

C2_Errors == (last.op = "fit" /\ C2_Applicable # {}) => last.err \in C2_Applicable

C2_FailedFitChangesNothing ==
  (last'.op = "fit" /\ last'.err # "none")
    => UNCHANGED <<strategy, random_state, constant, engine, fit_y>>

C3_MajorityLabel ==
  (Ok("predict") /\ strategy \in {"most_frequent", "prior"})
    => /\ \A i \in DOMAIN last.labels : last.labels[i] = last.labels[1]
       /\ last.labels # <<>>
       /\ \A c \in Labels : Count(fit_y[1], c) <= Count(fit_y[1], last.labels[1])

C3_Witness ==
  /\ Ok("predict")
  /\ strategy = "most_frequent"
  /\ fit_y = Some(<<0, 1, 1>>)
  /\ last.labels = <<1, 1, 1>>

\* C4: under "prior", the rows of predict_proba are all the same, sum to 1,
\* and entry k is (training labels equal to the k-th label) / (training labels).
C4_PriorProba ==
  (Ok("predict_proba") /\ strategy = "prior")
    => LET y == fit_y[1]
           classes == SortedSeq(Range(y))
           P == last.proba
       IN /\ Len(P.rows) = last.shape[1]
          /\ \A i \in DOMAIN P.rows :
               /\ P.rows[i] = P.rows[1]
               /\ Sum(P.rows[i]) = P.den
               /\ DOMAIN P.rows[i] = DOMAIN classes
               /\ \A k \in DOMAIN classes :
                    P.rows[i][k] * Len(y) = Count(y, classes[k]) * P.den

C4_Witness ==
  /\ Ok("predict_proba")
  /\ strategy = "prior"
  /\ fit_y = Some(<<0, 0, 1>>)
  /\ last.proba = [den |-> 3, rows |-> <<<<2, 1>>, <<2, 1>>>>]

\* C5: under "constant" with constant c, every label predict returns is c,
\* whatever the training labels of the fit were.
C5_ConstantLabel ==
  (Ok("predict") /\ strategy = "constant")
    => /\ Len(last.labels) = last.shape[1]
       /\ constant # NoValue
       /\ \A i \in DOMAIN last.labels : last.labels[i] = constant[1]

C5_Witness ==
  /\ Ok("predict")
  /\ strategy = "constant"
  /\ constant = Some(1)
  /\ fit_y = Some(<<0, 0, 1>>)
  /\ last.labels = <<1, 1>>

\* The results predict / predict_proba can give for X on the fitted engine,
\* over the states of the global generator.
PredictOutcomes(X) == {_predict(engine, X, g) : g \in RngStates}
PredictProbaOutcomes(X) == {_predict_proba(engine, X, g) : g \in RngStates}

\* C6: the feature values have no influence. A predictor of the same
\* parameters fitted on any X' of the shape of X and the same labels holds the
\* same summary; any X' of the shape of the query gives the engine the same
\* argument and has the same possible results, which are one result when the
\* strategy is deterministic or a seed is given.
C6_FeatureInvariance ==
  /\ Ok("fit") =>
       \A X \in SameShape(last.shape) :
         /\ Some(Placeholder(X)) = last.engine_X
         /\ _fit(init_engine(strategy, random_state, constant), X, fit_y[1]) = engine
  /\ Ok("predict") =>
       \A X \in SameShape(last.shape) :
         /\ Some(Placeholder(X)) = last.engine_X
         /\ last.labels \in PredictOutcomes(X)
         /\ (strategy \notin Stochastic \/ random_state # NoValue)
              => PredictOutcomes(X) = {last.labels}
  /\ Ok("predict_proba") =>
       \A X \in SameShape(last.shape) :
         /\ Some(Placeholder(X)) = last.engine_X
         /\ last.proba \in PredictProbaOutcomes(X)
         /\ (strategy \notin Stochastic \/ random_state # NoValue)
              => PredictProbaOutcomes(X) = {last.proba}

C6_Witness ==
  /\ Ok("predict_proba")
  /\ strategy = "stratified"
  /\ random_state # NoValue
  /\ Cardinality(SameShape(last.shape)) > 1
  /\ Cardinality(Range(last.proba.rows)) > 1

\* A second run: a new predictor of the same parameters, fitted on the same
\* labels, asked the same query, whatever the global generator holds then.
C7_SecondRun ==
  (last.op \in Predictions /\ last.err = "none"
     /\ strategy \in Stochastic /\ random_state # NoValue)
    => \A X \in SameShape(last.shape), Xfit \in XInputs, g \in RngStates :
         Xfit.n = Len(fit_y[1]) =>
           LET second == _fit(init_engine(strategy, random_state, constant), Xfit, fit_y[1])
           IN /\ last.op = "predict" => _predict(second, X, g) = last.labels
              /\ last.op = "predict_proba" => _predict_proba(second, X, g) = last.proba

\* The same call repeated on the same fitted predictor.
C7_RepeatedCall ==
  (/\ last.op \in Predictions /\ last.err = "none"
   /\ last'.op = last.op /\ last'.err = "none" /\ last'.shape = last.shape
   /\ strategy \in Stochastic /\ random_state # NoValue)
    => (last'.labels = last.labels /\ last'.proba = last.proba)

\* C7: under "stratified" and "uniform" with a seed, the same training data
\* and the same query give the same output in every run and in every
\* repetition of the call on one fitted predictor.
C7_SeededDeterminism == [] C7_SecondRun /\ [][C7_RepeatedCall]_vars

C7_Witness ==
  /\ Ok("predict")
  /\ strategy = "uniform"
  /\ random_state # NoValue
  /\ Cardinality(Range(last.labels)) > 1

\* C8: predict returns one label of the fitted label space per query
\* instance; predict_proba returns one vector per query instance, with one
\* entry per label of the fitted label space.
C8_OutputShape ==
  /\ Ok("predict") =>
       /\ Len(last.labels) = last.shape[1]
       /\ Range(last.labels) \subseteq Range(fit_y[1])
  /\ Ok("predict_proba") =>
       /\ Len(last.proba.rows) = last.shape[1]
       /\ \A i \in DOMAIN last.proba.rows :
            Len(last.proba.rows[i]) = Cardinality(Range(fit_y[1]))

C8_Witness ==
  /\ Ok("predict_proba")
  /\ Len(last.proba.rows) = 3
  /\ Len(last.proba.rows[1]) = 2

\* C9 as stated: once fitted, the predictor stays fitted and no operation
\* changes its strategy, its label space or its fitted summary.
C9_SummaryNeverChanges ==
  [][engine.fitted => /\ engine' = engine
                      /\ strategy' = strategy]_vars

C9_Frame ==
  /\ UNCHANGED <<strategy, random_state, constant>>
  /\ last'.op \in Predictions => UNCHANGED <<engine, fit_y>>
  /\ engine' # engine =>
       /\ last'.op = "fit" /\ last'.err = "none"
       /\ engine'.fitted
       /\ engine'.classes_ = SortedSeq(Range(fit_y'[1]))
       /\ \A k \in DOMAIN engine'.classes_ :
            engine'.class_count[k] = Count(fit_y'[1], engine'.classes_[k])

\* C9, amended: the parameters never change; predict and predict_proba
\* change neither the fitted status nor the label space nor the summary; the
\* summary changes only in a fit that succeeds, which sets it from its labels.
C9_OnlyFitChangesSummary == [][C9_Frame]_vars

C9_Witness ==
  /\ Ok("predict")
  /\ engine.fitted
  /\ fit_y = Some(<<1, 0>>)
  /\ engine.class_count = <<1, 1>>

\* C10 as stated: under "uniform" and "stratified" every row of
\* predict_proba is a one-hot vector.
C10_RowsAreOneHot ==
  (Ok("predict_proba") /\ strategy \in Stochastic)
    => \A i \in DOMAIN last.proba.rows : IsOneHot(last.proba.rows[i], last.proba.den)

\* C10, amended: under "stratified" every row of predict_proba is a one-hot
\* vector at a label that occurs in the training labels; under "uniform"
\* every row gives each of the K observed labels the probability 1/K.
C10_StratifiedOneHotUniformFlat ==
  Ok("predict_proba") =>
    LET P == last.proba
        classes == SortedSeq(Range(fit_y[1]))
    IN /\ strategy = "stratified" =>
            \A i \in DOMAIN P.rows :
              /\ IsOneHot(P.rows[i], P.den)
              /\ \A k \in DOMAIN P.rows[i] :
                   P.rows[i][k] # 0 => Count(fit_y[1], classes[k]) > 0
       /\ strategy = "uniform" =>
            \A i \in DOMAIN P.rows :
              /\ Len(P.rows[i]) = Len(classes)
              /\ \A k \in DOMAIN P.rows[i] : P.rows[i][k] * Len(classes) = P.den

C10_Witness ==
  /\ Ok("predict_proba")
  /\ strategy = "uniform"
  /\ last.proba = [den |-> 2, rows |-> <<<<1, 1>>, <<1, 1>>>>]

====
